---------------------------- MODULE Spec2Model ----------------------------
(***************************************************************************)
(* A model of the text-to-speech command line scripts elevenify.py and      *)
(* say2file.py: the line classifier / segmenter (split_text), the slug and  *)
(* filename builder (slugify, get_unique_filename), the credit estimator    *)
(* (estimate_convertible_lines), the format resolver (get_output_format),   *)
(* and a whole run of main with its calls of process_text_to_audio.         *)
(*                                                                          *)
(* Python strings are modelled as sequences of one-character strings, so    *)
(* that strip, split, re.sub and the f-string formatting are computed       *)
(* character by character.  None is modelled as the empty tuple and an      *)
(* integer n that may be None as <<n>>.  File names, once built, are kept   *)
(* as strings (Str), and the filesystem fs is the set of the existing names. *)
(***************************************************************************)
EXTENDS Integers, Sequences, FiniteSets, TLC

VARIABLES
    pc,                   \* position of the modelled call
    script,               \* which script runs: "elevenify" or "say2file"
    \* split_text / estimate_convertible_lines
    text, start_line, last_line, segments,
    model, character_limit, character_count, estimate,
    \* slugify
    slug_text, slug_once, slug_twice,
    \* get_output_format
    audio_type, rate, output_format,
    \* get_unique_filename / process_text_to_audio
    voice_name, prefix, start_sample_number, end_sample_number,
    fs, index, checks, output_file,
    \* main
    args,                 \* the parsed command line
    api_key,              \* whether --key or the environment holds a key
    voice_found,          \* whether args.voice is in the voice catalogue
    seg_i,                \* position of the split loop in segments
    non_comment_lines, first_sample_number, last_sample_number,
    \* process_text_to_audio, paused path
    pta_text, pause, pta_lines, audio_segments, combined_audio,
    \* what the run did outside the process
    fs0,                  \* the filesystem when the run started
    attempted,            \* arguments of the process_text_to_audio calls
    calls,                \* texts of the client.generate calls
    written,              \* files opened for writing: <<number of the call, name>>
    console               \* what was printed

vars_split == <<text, start_line, last_line, segments>>
vars_est   == <<model, character_limit, character_count, estimate>>
vars_slug  == <<slug_text, slug_once, slug_twice>>
vars_fmt   == <<audio_type, rate, output_format>>
vars_file  == <<voice_name, prefix, start_sample_number, end_sample_number,
                fs, index, checks, output_file>>
vars_main  == <<args, api_key, voice_found, seg_i, non_comment_lines,
                first_sample_number, last_sample_number>>
vars_pta   == <<pta_text, pause, pta_lines, audio_segments, combined_audio>>
vars_log   == <<fs0, attempted, calls, written, console>>
vars_run   == <<vars_main, vars_pta, vars_log>>
vars == <<pc, script, vars_split, vars_est, vars_slug, vars_fmt, vars_file,
          vars_run>>

-----------------------------------------------------------------------------
(* Bounds of the model *)

MaxTextLen == 5      \* longest input text of split_text, in characters
MaxLine    == 3      \* largest --start-line / --last-line
MaxSlugLen == 4      \* longest input of slugify, in characters
MaxEstLen  == 4      \* longest input text of the estimator, in characters
MaxLimit   == 3      \* largest subscription.character_limit
MaxCount   == 1      \* largest subscription.character_count
MaxExisting == 3     \* files of the small filesystems: suffixes up to MaxExisting - 1

-----------------------------------------------------------------------------
(* Python values *)

None == <<>>
Some(n) == <<n>>

NL == "\n"
\* the characters str.strip() removes and \s matches, among those modelled
Whitespace == {" ", NL}

Min(S) == CHOOSE x \in S : \A y \in S : x <= y
Max(S) == CHOOSE x \in S : \A y \in S : x >= y

\* every string over alphabet A of length at most n
StringsUpTo(A, n) == UNION {[1..k -> A] : k \in 0..n}

\* str.strip(): leading and trailing characters of `chars` removed
StripChars(s, chars) ==
    LET keep == {i \in 1..Len(s) : s[i] \notin chars}
    IN  IF keep = {} THEN <<>> ELSE SubSeq(s, Min(keep), Max(keep))

Strip(s) == StripChars(s, Whitespace)

\* str.split(c): the pieces between the occurrences of c (always >= 1 piece)
RECURSIVE Split(_, _)
Split(s, c) ==
    LET at == {i \in 1..Len(s) : s[i] = c}
    IN  IF at = {} THEN <<s>>
        ELSE <<SubSeq(s, 1, Min(at) - 1)>>
             \o Split(SubSeq(s, Min(at) + 1, Len(s)), c)

\* line.split('#', 1)[0]: everything before the first '#'
BeforeHash(line) ==
    LET at == {i \in 1..Len(line) : line[i] = "#"}
    IN  IF at = {} THEN line ELSE SubSeq(line, 1, Min(at) - 1)

\* line.split('#', 1)[0].strip()
StripComment(line) == Strip(BeforeHash(line))

\* sep.join(parts)
RECURSIVE Join(_, _)
Join(sep, parts) ==
    IF parts = <<>> THEN <<>>
    ELSE IF Len(parts) = 1 THEN parts[1]
    ELSE parts[1] \o sep \o Join(sep, Tail(parts))

\* re.split(r'(?<=[.!?])\s+', s): cut at every run of whitespace that directly
\* follows '.', '!' or '?'; the run is dropped, the punctuation stays left.
SentenceEnd == {".", "!", "?"}
RECURSIVE ReSplitSentences(_)
ReSplitSentences(s) ==
    LET at == {i \in 2..Len(s) : s[i] \in Whitespace /\ s[i-1] \in SentenceEnd}
    IN  IF at = {} THEN <<s>>
        ELSE LET i == Min(at)
                 after == {j \in i..Len(s) : s[j] \notin Whitespace}
                 rest == IF after = {} THEN <<>>
                         ELSE SubSeq(s, Min(after), Len(s))
             IN  <<SubSeq(s, 1, i - 1)>> \o ReSplitSentences(rest)

-----------------------------------------------------------------------------
(* split_text *)

\* elevenify.py: the for loop of split_text, from line i on
RECURSIVE SplitLoop(_, _, _, _, _, _)
SplitLoop(lines, i, sample_number, segs, start, last) ==
    IF i > Len(lines) THEN [segments |-> segs, sample_number |-> sample_number]
    ELSE LET line == StripComment(lines[i])
         IN  IF line = <<>>
             THEN SplitLoop(lines, i + 1, sample_number, segs, start, last)
             ELSE IF i < start \/ i > last
             THEN SplitLoop(lines, i + 1, sample_number + 1, segs, start, last)
             ELSE SplitLoop(lines, i + 1, sample_number + 1,
                            Append(segs, <<sample_number + 1, line>>), start, last)

\* the list comprehension [(sample_number + i + 1, s) for i, s in
\* enumerate(sentences) if s.strip()], from sentence k on (k is i + 1)
RECURSIVE NumberSentences(_, _, _)
NumberSentences(sentences, k, sample_number) ==
    IF k > Len(sentences) THEN <<>>
    ELSE (IF Strip(sentences[k]) # <<>>
          THEN <<<<sample_number + k, sentences[k]>>>> ELSE <<>>)
         \o NumberSentences(sentences, k + 1, sample_number)

\* elevenify.py: the non-comment text the fallback splits into sentences
RECURSIVE NonCommentInRange(_, _, _, _)
NonCommentInRange(lines, i, start, last) ==
    IF i > Len(lines) THEN <<>>
    ELSE (IF i >= start /\ i <= last /\ StripComment(lines[i]) # <<>>
          THEN <<StripComment(lines[i])>> ELSE <<>>)
         \o NonCommentInRange(lines, i + 1, start, last)

\* the loop counts a line before it looks at the range: the slip of moving
\* the range test above the counter restarts the numbering at start_line
RECURSIVE SplitLoopRangeFirst(_, _, _, _, _, _)
SplitLoopRangeFirst(lines, i, sample_number, segs, start, last) ==
    IF i > Len(lines) THEN [segments |-> segs, sample_number |-> sample_number]
    ELSE LET line == StripComment(lines[i])
         IN  IF line = <<>> \/ i < start \/ i > last
             THEN SplitLoopRangeFirst(lines, i + 1, sample_number, segs, start, last)
             ELSE SplitLoopRangeFirst(lines, i + 1, sample_number + 1,
                            Append(segs, <<sample_number + 1, line>>), start, last)

split_text_range_first(t, start, last) ==
    SplitLoopRangeFirst(Split(Strip(t), NL), 1, 0, <<>>, start, last).segments

\* elevenify.py split_text(text, start_line, last_line)
split_text(t, start, last) ==
    LET lines == Split(Strip(t), NL)
        loop == SplitLoop(lines, 1, 0, <<>>, start, last)
    IN  IF loop.segments # <<>> THEN loop.segments
        ELSE LET non_comment_text ==
                     Join(<<NL>>, NonCommentInRange(lines, 1, start, last))
                 sentences == ReSplitSentences(Strip(non_comment_text))
             IN  NumberSentences(sentences, 1, loop.sample_number)

\* say2file.py: the for loop of split_text, which has no last_line
RECURSIVE S2fSplitLoop(_, _, _, _, _)
S2fSplitLoop(lines, i, sample_number, segs, start) ==
    IF i > Len(lines) THEN [segments |-> segs, sample_number |-> sample_number]
    ELSE LET line == StripComment(lines[i])
         IN  IF line = <<>>
             THEN S2fSplitLoop(lines, i + 1, sample_number, segs, start)
             ELSE IF i < start
             THEN S2fSplitLoop(lines, i + 1, sample_number + 1, segs, start)
             ELSE S2fSplitLoop(lines, i + 1, sample_number + 1,
                               Append(segs, <<sample_number + 1, line>>), start)

\* say2file.py split_text(text, start_line)
s2f_split_text(t, start) ==
    LET lines == Split(Strip(t), NL)
        loop == S2fSplitLoop(lines, 1, 0, <<>>, start)
    IN  IF loop.segments # <<>> THEN loop.segments
        ELSE LET non_comment_text ==
                     Join(<<NL>>, NonCommentInRange(lines, 1, start, Len(lines)))
                 sentences == ReSplitSentences(Strip(non_comment_text))
             IN  NumberSentences(sentences, 1, loop.sample_number)

-----------------------------------------------------------------------------
(* Values of the variables a specification does not use *)

IdleSplit == text = <<>> /\ start_line = 0 /\ last_line = 0 /\ segments = <<>>
IdleEst   == model = "" /\ character_limit = 0 /\ character_count = 0
             /\ estimate = None
IdleSlug  == slug_text = <<>> /\ slug_once = <<>> /\ slug_twice = <<>>
IdleFmt   == audio_type = "" /\ rate = 0 /\ output_format = None
IdleFile  == voice_name = <<>> /\ prefix = None
             /\ start_sample_number = None /\ end_sample_number = None
             /\ fs = {} /\ index = 0 /\ checks = 0 /\ output_file = ""
IdleMain  == args = None /\ api_key = FALSE /\ voice_found = FALSE
             /\ seg_i = 0 /\ non_comment_lines = <<>>
             /\ first_sample_number = None /\ last_sample_number = None
IdlePta   == pta_text = None /\ pause = None /\ pta_lines = None
             /\ audio_segments = <<>> /\ combined_audio = <<>>
IdleLog   == attempted = <<>> /\ calls = <<>> /\ written = <<>>
             /\ console = <<>>

-----------------------------------------------------------------------------
(* Specification SpecSplit: one call of split_text on any bounded text *)

TextAlphabet == {"a", ".", " ", "#", NL}
Texts == StringsUpTo(TextAlphabet, MaxTextLen)

InitSplit ==
    /\ pc = "split_text"
    /\ script \in {"elevenify", "say2file"}
    /\ text \in Texts
    /\ start_line \in 1..MaxLine
    /\ last_line \in (IF script = "elevenify" THEN start_line..MaxLine ELSE {0})
    /\ segments = <<>>
    /\ IdleEst /\ IdleSlug /\ IdleFmt /\ IdleFile
    /\ IdleMain /\ IdlePta /\ IdleLog /\ fs0 = fs

\* elevenify.py main: segments = split_text(text, args.start_line, last_line)
SplitText ==
    /\ pc = "split_text"
    /\ script = "elevenify"
    /\ segments' = split_text(text, start_line, last_line)
    /\ pc' = "split_done"
    /\ UNCHANGED <<vars_run, script, text, start_line, last_line,
                   vars_est, vars_slug, vars_fmt, vars_file>>

\* say2file.py main: segments = split_text(text, args.start_line)
S2fSplitText ==
    /\ pc = "split_text"
    /\ script = "say2file"
    /\ segments' = s2f_split_text(text, start_line)
    /\ pc' = "split_done"
    /\ UNCHANGED <<vars_run, script, text, start_line, last_line,
                   vars_est, vars_slug, vars_fmt, vars_file>>

NextSplit == SplitText \/ S2fSplitText

SpecSplit == InitSplit /\ [][NextSplit]_vars

-----------------------------------------------------------------------------
(* The line classifier as the specification states it, for the claims *)

PhysicalLines(t) == Split(Strip(t), NL)

\* the physical line numbers of the content lines of t
ContentLineNos(t) ==
    {i \in 1..Len(PhysicalLines(t)) : StripComment(PhysicalLines(t)[i]) # <<>>}

\* the 1-based ordinal of content line i among all content lines of t
Ordinal(t, i) == Cardinality({j \in ContentLineNos(t) : j <= i})

\* the content lines the requested range selects (say2file has no last line)
InRangeNos ==
    {i \in ContentLineNos(text) :
        start_line <= i /\ (script = "say2file" \/ i <= last_line)}

KthSmallest(S, k) == CHOOSE x \in S : Cardinality({y \in S : y <= x}) = k

\* the range is one main() passes on: within the file's physical lines
RangeWithinFile ==
    /\ start_line <= Len(PhysicalLines(text))
    /\ last_line <= Len(PhysicalLines(text))

\* C1: when at least one content line is in range, split_text returns exactly
\* the in-range content lines in physical-line order, each tagged with its
\* ordinal among all content lines of the text; the tags are consecutive.
C1_SampleNumbersSpanWholeText ==
    (pc = "split_done" /\ InRangeNos # {}) =>
        /\ Len(segments) = Cardinality(InRangeNos)
        /\ \A k \in 1..Len(segments) :
              LET ln == KthSmallest(InRangeNos, k)
              IN  segments[k] =
                      <<Ordinal(text, ln), StripComment(PhysicalLines(text)[ln])>>
        /\ \A k \in 1..(Len(segments) - 1) :
              segments[k + 1][1] = segments[k][1] + 1

\* a range starting after line 1 whose two segments carry on from sample 2
C1_Witness ==
    /\ pc = "split_done"
    /\ start_line > 1
    /\ Len(segments) = 2
    /\ segments[1][1] = 2 /\ segments[2][1] = 3

\* the sentences the fallback is specified to return: the non-comment content
\* of the whole text, joined with newlines and cut into sentences
FullTextSentences ==
    LET lines == PhysicalLines(text)
        content == [k \in 1..Cardinality(ContentLineNos(text)) |->
                       StripComment(lines[KthSmallest(ContentLineNos(text), k)])]
    IN  SelectSeq(ReSplitSentences(Strip(Join(<<NL>>, content))),
                  LAMBDA s : Strip(s) # <<>>)

\* C2: when the range holds no content line but the text has content lines
\* outside it, split_text returns the sentences of the whole text's
\* non-comment content, numbered N+1, N+2, ... after the last sample number N.
C2_FallbackSplitsFullText ==
    (pc = "split_done" /\ RangeWithinFile
        /\ InRangeNos = {} /\ ContentLineNos(text) # {}) =>
        /\ Len(segments) = Len(FullTextSentences)
        /\ \A k \in 1..Len(segments) :
              segments[k] = <<Cardinality(ContentLineNos(text)) + k,
                              FullTextSentences[k]>>

\* C2, what the code does instead: the fallback filters by the same range
\* that was just found empty, so it never returns a segment
C2_FallbackReturnsNothing ==
    (pc = "split_done" /\ InRangeNos = {}) => segments = <<>>

C2_FallbackReached ==
    /\ pc = "split_done" /\ RangeWithinFile
    /\ InRangeNos = {} /\ ContentLineNos(text) # {}

-----------------------------------------------------------------------------
(* slugify *)

UpperCase == <<"A", "B", "C", "D", "E", "F", "G", "H", "I", "J", "K", "L", "M",
               "N", "O", "P", "Q", "R", "S", "T", "U", "V", "W", "X", "Y", "Z">>
LowerCase == <<"a", "b", "c", "d", "e", "f", "g", "h", "i", "j", "k", "l", "m",
               "n", "o", "p", "q", "r", "s", "t", "u", "v", "w", "x", "y", "z">>
DigitChars == <<"0", "1", "2", "3", "4", "5", "6", "7", "8", "9">>

Range(f) == {f[i] : i \in DOMAIN f}

\* str.lower()
LowerChar(c) ==
    IF c \in Range(UpperCase)
    THEN LowerCase[CHOOSE i \in 1..Len(UpperCase) : UpperCase[i] = c]
    ELSE c
Lower(s) == [i \in 1..Len(s) |-> LowerChar(s[i])]

\* the character class [a-z0-9.-]
SlugChars == Range(LowerCase) \cup Range(DigitChars) \cup {".", "-"}

\* re.sub(r'[^a-z0-9.-]', '-', s)
ReplaceNonSlug(s) == [i \in 1..Len(s) |-> IF s[i] \in SlugChars THEN s[i] ELSE "-"]

\* re.sub(r'-+', '-', s): every run of '-' becomes one '-'
CollapseHyphens(s) ==
    LET keep == {i \in 1..Len(s) : ~(s[i] = "-" /\ i > 1 /\ s[i-1] = "-")}
    IN  [k \in 1..Cardinality(keep) |->
            s[CHOOSE i \in keep : Cardinality({j \in keep : j <= i}) = k]]

\* slugify that forgets the final strip('-')
slugify_no_strip(t) == CollapseHyphens(ReplaceNonSlug(Lower(t)))

\* slugify(text)
slugify(t) == StripChars(CollapseHyphens(ReplaceNonSlug(Lower(t))), {"-"})

-----------------------------------------------------------------------------
(* Specification SpecSlug: slugify applied to any bounded string, twice *)

SlugAlphabet == {"A", "b", "7", ".", "-", "_", " "}

InitSlug ==
    /\ pc = "slugify"
    /\ script \in {"elevenify", "say2file"}
    /\ slug_text \in StringsUpTo(SlugAlphabet, MaxSlugLen)
    /\ slug_once = <<>> /\ slug_twice = <<>>
    /\ IdleSplit /\ IdleEst /\ IdleFmt /\ IdleFile
    /\ IdleMain /\ IdlePta /\ IdleLog /\ fs0 = fs

Slugify ==
    /\ pc = "slugify"
    /\ slug_once' = slugify(slug_text)
    /\ pc' = "slugify_again"
    /\ UNCHANGED <<vars_run, script, slug_text, slug_twice,
                   vars_split, vars_est, vars_fmt, vars_file>>

SlugifyAgain ==
    /\ pc = "slugify_again"
    /\ slug_twice' = slugify(slug_once)
    /\ pc' = "slug_done"
    /\ UNCHANGED <<vars_run, script, slug_text, slug_once,
                   vars_split, vars_est, vars_fmt, vars_file>>

NextSlug == Slugify \/ SlugifyAgain

SpecSlug == InitSlug /\ [][NextSlug]_vars

\* only [a-z0-9.-], no two adjacent '-', no '-' at either end
IsSlug(s) ==
    /\ \A i \in 1..Len(s) : s[i] \in SlugChars
    /\ \A i \in 1..(Len(s) - 1) : ~(s[i] = "-" /\ s[i + 1] = "-")
    /\ s # <<>> => (s[1] # "-" /\ s[Len(s)] # "-")

\* C10: slugify is idempotent, slugify(slugify(x)) = slugify(x), and every
\* output holds only [a-z0-9.-], no "--", and no '-' at either end.
C10_SlugifyIdempotent ==
    /\ pc \in {"slugify_again", "slug_done"} => IsSlug(slug_once)
    /\ pc = "slug_done" => slug_twice = slug_once

\* an input that slugify lowercases, replaces in, collapses and trims
C10_Witness ==
    /\ pc = "slug_done"
    /\ slug_text = <<"_", "A", " ", "_">>
    /\ slug_once = <<"a">>

-----------------------------------------------------------------------------
(* get_output_format *)

MP3  == <<"m", "p", "3">>
WAV  == <<"w", "a", "v">>
ULAW == <<"u", "l", "a", "w">>
ALAW == <<"a", "l", "a", "w">>
OGA  == <<"o", "g", "a">>

\* valid_formats: per audio type the entries <<rate, (format id, kHz, rate
\* value, extension)>> in the order the dict literal lists them.  The kHz
\* float is kept in hundredths of a kHz (22.05 is 2205), which is what the
\* filename's {khz_rate:.2f} prints.
valid_formats ==
    [mp3  |-> << <<32,  <<"mp3_22050_32",  2205, 32,  MP3>> >>,
                 <<64,  <<"mp3_44100_64",  4410, 64,  MP3>> >>,
                 <<96,  <<"mp3_44100_96",  4410, 96,  MP3>> >>,
                 <<128, <<"mp3_44100_128", 4410, 128, MP3>> >>,
                 <<192, <<"mp3_44100_192", 4410, 192, MP3>> >> >>,
     pcm  |-> << <<8000,  <<"pcm_8000",  800,  8000,  WAV>> >>,
                 <<16000, <<"pcm_16000", 1600, 16000, WAV>> >>,
                 <<22050, <<"pcm_22050", 2205, 22050, WAV>> >>,
                 <<24000, <<"pcm_24000", 2400, 24000, WAV>> >>,
                 <<44100, <<"pcm_44100", 4410, 44100, WAV>> >> >>,
     ulaw |-> << <<8000, <<"ulaw_8000", 800, 8000, ULAW>> >> >>,
     alaw |-> << <<8000, <<"alaw_8000", 800, 8000, ALAW>> >> >>,
     opus |-> << <<32,  <<"opus_48000_32",  4800, 32,  OGA>> >>,
                 <<64,  <<"opus_48000_64",  4800, 64,  OGA>> >>,
                 <<96,  <<"opus_48000_96",  4800, 96,  OGA>> >>,
                 <<128, <<"opus_48000_128", 4800, 128, OGA>> >>,
                 <<192, <<"opus_48000_192", 4800, 192, OGA>> >> >>]

\* list(valid_formats[audio_type].keys())
FormatKeys(t) == [i \in 1..Len(valid_formats[t]) |-> valid_formats[t][i][1]]

\* a lookup that falls back to the type's first entry instead of raising
get_output_format_lenient(t, r) ==
    IF t \notin DOMAIN valid_formats
    THEN [status |-> "KeyError", value |-> <<>>]
    ELSE IF r \notin Range(FormatKeys(t))
    THEN [status |-> "ok", value |-> valid_formats[t][1][2]]
    ELSE [status |-> "ok",
          value |-> valid_formats[t][CHOOSE i \in 1..Len(valid_formats[t]) :
                                        valid_formats[t][i][1] = r][2]]

\* get_output_format(audio_type, rate): the entry, or the ValueError with the
\* valid rates its message lists (building that message raises KeyError for
\* an audio type the table does not have)
get_output_format(t, r) ==
    IF t \notin DOMAIN valid_formats
    THEN [status |-> "KeyError", value |-> <<>>]
    ELSE IF r \notin Range(FormatKeys(t))
    THEN [status |-> "ValueError", value |-> FormatKeys(t)]
    ELSE [status |-> "ok",
          value |-> valid_formats[t][CHOOSE i \in 1..Len(valid_formats[t]) :
                                        valid_formats[t][i][1] = r][2]]

-----------------------------------------------------------------------------
(* Specification SpecFmt: get_output_format on every --type / --rate pair *)

\* argparse choices of --type and --rate
TypeChoices == {"mp3", "pcm", "ulaw", "alaw", "opus"}
RateChoices == {32, 64, 96, 128, 192, 8000, 16000, 22050, 24000, 44100}

InitFmt ==
    /\ pc = "get_output_format"
    /\ script \in {"elevenify", "say2file"}
    /\ audio_type \in TypeChoices
    /\ rate \in RateChoices
    /\ output_format = None
    /\ IdleSplit /\ IdleEst /\ IdleSlug /\ IdleFile
    /\ IdleMain /\ IdlePta /\ IdleLog /\ fs0 = fs

GetOutputFormat ==
    /\ pc = "get_output_format"
    /\ output_format' = get_output_format(audio_type, rate)
    /\ pc' = "format_done"
    /\ UNCHANGED <<vars_run, script, audio_type, rate,
                   vars_split, vars_est, vars_slug, vars_file>>

NextFmt == GetOutputFormat

SpecFmt == InitFmt /\ [][NextFmt]_vars

\* the format table of the specification, one row per listed pair:
\* <<type, rate, format id, kHz in hundredths, rate value, extension>>
ListedFormats ==
    {<<"mp3", 32, "mp3_22050_32", 2205, 32, MP3>>,
     <<"mp3", 64, "mp3_44100_64", 4410, 64, MP3>>,
     <<"mp3", 96, "mp3_44100_96", 4410, 96, MP3>>,
     <<"mp3", 128, "mp3_44100_128", 4410, 128, MP3>>,
     <<"mp3", 192, "mp3_44100_192", 4410, 192, MP3>>,
     <<"pcm", 8000, "pcm_8000", 800, 8000, WAV>>,
     <<"pcm", 16000, "pcm_16000", 1600, 16000, WAV>>,
     <<"pcm", 22050, "pcm_22050", 2205, 22050, WAV>>,
     <<"pcm", 24000, "pcm_24000", 2400, 24000, WAV>>,
     <<"pcm", 44100, "pcm_44100", 4410, 44100, WAV>>,
     <<"ulaw", 8000, "ulaw_8000", 800, 8000, ULAW>>,
     <<"alaw", 8000, "alaw_8000", 800, 8000, ALAW>>,
     <<"opus", 32, "opus_48000_32", 4800, 32, OGA>>,
     <<"opus", 64, "opus_48000_64", 4800, 64, OGA>>,
     <<"opus", 96, "opus_48000_96", 4800, 96, OGA>>,
     <<"opus", 128, "opus_48000_128", 4800, 128, OGA>>,
     <<"opus", 192, "opus_48000_192", 4800, 192, OGA>>}

\* C9: every listed (type, rate) pair returns exactly its row, every other
\* pair of the CLI choices fails with a ValueError listing exactly the valid
\* rates of that type; no pair is mapped to another pair's entry.
C9_FormatLookupTotal ==
    pc = "format_done" =>
        LET rows == {row \in ListedFormats :
                        row[1] = audio_type /\ row[2] = rate}
        IN  IF rows # {}
            THEN /\ output_format.status = "ok"
                 /\ \A row \in rows :
                       output_format.value = <<row[3], row[4], row[5], row[6]>>
            ELSE /\ output_format.status = "ValueError"
                 /\ Range(output_format.value) =
                       {row[2] : row \in {x \in ListedFormats : x[1] = audio_type}}
                 /\ Len(output_format.value) =
                       Cardinality(Range(output_format.value))

\* pcm/8000 resolves, and mp3 with a rate it does not list is rejected
C9_Witness ==
    /\ pc = "format_done"
    /\ \/ /\ audio_type = "pcm" /\ rate = 8000
          /\ output_format = [status |-> "ok",
                              value |-> <<"pcm_8000", 800, 8000, WAV>>]
       \/ /\ audio_type = "mp3" /\ rate = 8000
          /\ output_format = [status |-> "ValueError",
                              value |-> <<32, 64, 96, 128, 192>>]

-----------------------------------------------------------------------------
(* estimate_convertible_lines *)

\* get_model_credit_cost(model), in half credits per character: the code's
\* 0.5 is 1 and its 1.0 is 2.  Every credit amount of the estimate
\* (credits_required, full_file_credits) is kept in half credits, so the
\* float products chars * 0.5 are exact integers here as they are in Python.
get_model_credit_cost(m) == IF m = "eleven_turbo_v2" THEN 1 ELSE 2

\* the test that leaves out the line's own cost
CanAffordIgnoringLine(total_credits, line_credits, credits_remaining) ==
    total_credits <= 2 * credits_remaining

\* the test with < for <=
CanAffordStrictly(total_credits, line_credits, credits_remaining) ==
    total_credits + line_credits < 2 * credits_remaining

\* total_credits + line_credits <= credits_remaining (credits_remaining is in
\* whole credits, the two sums in half credits)
CanAfford(total_credits, line_credits, credits_remaining) ==
    total_credits + line_credits <= 2 * credits_remaining

\* the for loop of estimate_convertible_lines, from line i on; e holds the
\* six counters
RECURSIVE EstimateLoop(_, _, _, _, _, _, _)
EstimateLoop(lines, i, e, start, last, credit_cost, credits_remaining) ==
    IF i > Len(lines) THEN e
    ELSE IF i < start \/ i > last
    THEN EstimateLoop(lines, i + 1, e, start, last, credit_cost, credits_remaining)
    ELSE LET line == StripComment(lines[i])
             chars == Len(line)
             line_credits == chars * credit_cost
             full == [e EXCEPT !.full_file_lines = @ + 1,
                               !.full_file_characters = @ + chars,
                               !.full_file_credits = @ + line_credits]
         IN  IF line = <<>>
             THEN EstimateLoop(lines, i + 1, e, start, last,
                               credit_cost, credits_remaining)
             ELSE IF CanAfford(e.credits_required, line_credits, credits_remaining)
             THEN EstimateLoop(lines, i + 1,
                               [full EXCEPT !.lines = @ + 1,
                                            !.characters = @ + chars,
                                            !.credits_required = @ + line_credits],
                               start, last, credit_cost, credits_remaining)
             ELSE EstimateLoop(lines, i + 1, full, start, last,
                               credit_cost, credits_remaining)

\* estimate_convertible_lines(client, text, start_line, last_line, model),
\* given the subscription the client returned
estimate_convertible_lines(limit, count, t, start, last, m) ==
    LET credits_remaining == limit - count
        credit_cost == get_model_credit_cost(m)
    IN  EstimateLoop(Split(Strip(t), NL), 1,
                     [credits_remaining |-> credits_remaining,
                      credit_cost |-> credit_cost,
                      lines |-> 0, characters |-> 0, credits_required |-> 0,
                      full_file_lines |-> 0, full_file_characters |-> 0,
                      full_file_credits |-> 0],
                     start, last, credit_cost, credits_remaining)

-----------------------------------------------------------------------------
(* Specification SpecEst: one --estimate-credits run of elevenify.py *)

EstAlphabet == {"a", " ", "#", NL}
Models == {"eleven_multilingual_v2", "eleven_turbo_v2"}

InitEst ==
    /\ pc = "estimate"
    /\ script = "elevenify"
    /\ text \in StringsUpTo(EstAlphabet, MaxEstLen)
    /\ start_line \in 1..MaxLine
    /\ last_line \in start_line..MaxLine
    /\ segments = <<>>
    /\ model \in Models
    /\ character_limit \in 0..MaxLimit
    /\ character_count \in 0..MaxCount
    /\ estimate = None
    /\ IdleSlug /\ IdleFmt /\ IdleFile
    /\ IdleMain /\ IdlePta /\ IdleLog /\ fs0 = fs

\* the subscription query answers and the estimate is returned
Estimate ==
    /\ pc = "estimate"
    /\ estimate' = estimate_convertible_lines(character_limit, character_count,
                                              text, start_line, last_line, model)
    /\ pc' = "estimate_done"
    /\ UNCHANGED <<vars_run, script, vars_split, model, character_limit, character_count,
                   vars_slug, vars_fmt, vars_file>>

\* the subscription query raises: the error is printed and None returned
EstimateFails ==
    /\ pc = "estimate"
    /\ estimate' = None
    /\ pc' = "estimate_failed"
    /\ UNCHANGED <<vars_run, script, vars_split, model, character_limit, character_count,
                   vars_slug, vars_fmt, vars_file>>

NextEst == Estimate \/ EstimateFails

SpecEst == InitEst /\ [][NextEst]_vars

\* the in-range content lines of the text, in line order
RangeContent ==
    LET nos == {i \in ContentLineNos(text) : start_line <= i /\ i <= last_line}
    IN  [k \in 1..Cardinality(nos) |->
            StripComment(PhysicalLines(text)[KthSmallest(nos, k)])]

RECURSIVE SumLen(_, _)
\* the summed length of the first n lines of ls
SumLen(ls, n) == IF n = 0 THEN 0 ELSE Len(ls[n]) + SumLen(ls, n - 1)

\* C6 as stated: credits_required <= credits_remaining for every value of
\* credits_remaining, also a negative one (in half credits on both sides)
C6_AffordableWithinRemaining ==
    pc = "estimate_done" =>
        estimate.credits_required <= 2 * estimate.credits_remaining

\* C6 amended: credits_required <= credits_remaining whenever
\* credits_remaining >= 0, and credits_required = 0 when it is negative
C6_AffordableWithinRemainingOrZero ==
    pc = "estimate_done" =>
        /\ estimate.credits_remaining = character_limit - character_count
        /\ estimate.credits_remaining >= 0 =>
              estimate.credits_required <= 2 * estimate.credits_remaining
        /\ estimate.credits_remaining < 0 => estimate.credits_required = 0

\* the budget cuts the estimate short: something is affordable, something not
C6_Witness ==
    /\ pc = "estimate_done"
    /\ estimate.credits_required > 0
    /\ estimate.lines < estimate.full_file_lines

\* C7: each affordable counter is <= its range total, and when
\* credits_remaining >= range_total_credits the affordable counters equal
\* the range totals.
C7_AffordableWithinRangeTotals ==
    pc = "estimate_done" =>
        /\ estimate.lines <= estimate.full_file_lines
        /\ estimate.characters <= estimate.full_file_characters
        /\ estimate.credits_required <= estimate.full_file_credits
        /\ estimate.full_file_lines = Len(RangeContent)
        /\ 2 * estimate.credits_remaining >= estimate.full_file_credits =>
              /\ estimate.lines = estimate.full_file_lines
              /\ estimate.characters = estimate.full_file_characters
              /\ estimate.credits_required = estimate.full_file_credits

\* two lines that use up the remaining credits exactly
C7_Witness ==
    /\ pc = "estimate_done"
    /\ estimate.full_file_lines = 2
    /\ 2 * estimate.credits_remaining = estimate.full_file_credits
    /\ estimate.lines = 2

\* the number of leading in-range content lines that fit the budget together
AffordablePrefix ==
    LET fits == {n \in 0..Len(RangeContent) :
                    \A k \in 1..n :
                        SumLen(RangeContent, k) * estimate.credit_cost
                            <= 2 * estimate.credits_remaining}
    IN  Max(fits)

\* C8: the affordable counters cover a prefix of the in-range content lines:
\* the first line that does not fit and every later line are left out of
\* them, while the range totals count every line.
C8_AffordableIsPrefix ==
    pc = "estimate_done" =>
        /\ estimate.lines = AffordablePrefix
        /\ estimate.characters = SumLen(RangeContent, AffordablePrefix)
        /\ estimate.full_file_lines = Len(RangeContent)
        /\ estimate.full_file_characters = SumLen(RangeContent, Len(RangeContent))

\* C8, what the code does: a line that does not fit is skipped and the loop
\* goes on, so a later line is counted whenever it fits what is left
C8_LaterLineCounted ==
    /\ pc = "estimate_done"
    /\ estimate.lines > AffordablePrefix

-----------------------------------------------------------------------------
(* get_unique_filename *)

max_attempts == 1000

\* str(n) for n >= 0
RECURSIVE Dec(_)
Dec(n) == IF n < 10 THEN <<DigitChars[n + 1]>>
          ELSE Dec(n \div 10) \o <<DigitChars[(n % 10) + 1]>>

\* zero padding on the left to width w
RECURSIVE ZeroPad(_, _)
ZeroPad(s, w) == IF Len(s) >= w THEN s ELSE ZeroPad(<<"0">> \o s, w)

\* f"{n:05d}"
Pad5(n) == ZeroPad(Dec(n), 5)

\* f"{khz_rate:.2f}", khz_rate in hundredths of a kHz
Fixed2(h) == Dec(h \div 100) \o <<".">> \o ZeroPad(Dec(h % 100), 2)

\* re.sub(r'[^a-zA-Z0-9\s]', '_', voice_name)
SanitizeVoice(v) ==
    [i \in 1..Len(v) |->
        IF v[i] \in Range(LowerCase) \cup Range(UpperCase)
                      \cup Range(DigitChars) \cup Whitespace
        THEN v[i] ELSE "_"]

\* the string a sequence of characters spells
RECURSIVE Str(_)
Str(s) == IF s = <<>> THEN "" ELSE s[1] \o Str(Tail(s))

\* an existence check that never finds the file
os_path_exists_never(filename, files) == FALSE

\* os.path.exists(filename)
os_path_exists(filename, files) == filename \in files

\* the suffix given to every index, index 0 too
IndexSuffixFromZero(idx) == <<"-">> \o Pad5(idx)

\* elevenify.py: if index > 0: base += f"-{index:05d}"
IndexSuffix(idx) == IF idx > 0 THEN <<"-">> \o Pad5(idx) ELSE <<>>

\* elevenify.py: the filename one iteration of the for loop builds
Candidate(voice, khz_rate, bit_rate, extension, pre, first, last, idx) ==
    LET v == SanitizeVoice(voice)
        tail == v \o <<"-">> \o Fixed2(khz_rate) \o <<"-">> \o Dec(bit_rate)
        base == IF first # None /\ last # None
                THEN Pad5(first[1]) \o <<"-">> \o Pad5(last[1]) \o <<"-">>
                     \o tail \o IndexSuffix(idx)
                ELSE IF first # None
                THEN Pad5(first[1]) \o <<"-">> \o tail \o IndexSuffix(idx)
                ELSE tail \o <<"-">> \o Pad5(idx)
        prefixed == IF pre # <<>> THEN pre \o <<"-">> \o base ELSE base
    IN  Str(slugify(prefixed \o <<".">> \o extension))

\* say2file.py: the first filename an iteration of the while loop builds
S2fCandidate(voice, khz_rate, bit_rate, extension, pre, sample, idx) ==
    LET v == SanitizeVoice(voice)
        tail == v \o <<"-">> \o Fixed2(khz_rate) \o <<"-">> \o Dec(bit_rate)
        base == IF sample # None
                THEN Pad5(sample[1]) \o <<"-">> \o tail
                ELSE tail \o <<"-">> \o Pad5(idx)
        prefixed == IF pre # <<>> THEN pre \o <<"-">> \o base ELSE base
    IN  Str(slugify(prefixed \o <<".">> \o extension))

\* say2file.py: the second filename, base = f"{base}-{index:05d}", built
\* when a sample number is given and the first filename exists
S2fCandidateIndexed(voice, khz_rate, bit_rate, extension, pre, sample, idx) ==
    LET v == SanitizeVoice(voice)
        tail == v \o <<"-">> \o Fixed2(khz_rate) \o <<"-">> \o Dec(bit_rate)
        base == Pad5(sample[1]) \o <<"-">> \o tail
        prefixed == IF pre # <<>> THEN pre \o <<"-">> \o base ELSE base
    IN  Str(slugify(prefixed \o <<"-">> \o Pad5(idx) \o <<".">> \o extension))

-----------------------------------------------------------------------------
(* Specification SpecFile: one call of process_text_to_audio (no --pause)   *)
(* on any of the bounded filesystems                                        *)

ADAM  == <<"A", "d", "a", "m">>
AL_B  == <<"A", "l", " ", "B", ".">>
Voices == {ADAM, AL_B}
Prefixes == {None, <<"f">>}

\* (start_sample_number, end_sample_number): direct text, one sample, a range
SampleModes == {<<None, None>>, <<Some(12), None>>, <<Some(1), Some(2)>>}

\* the (--type, --rate) pairs of this specification: two listed, one not
FilePairs == {<<"mp3", 128>>, <<"pcm", 22050>>, <<"ulaw", 128>>}

\* the name the specification gives the file with disambiguation index k
\* (k = -1: no index), for the arguments a, a record of the call's arguments
DiskName(a, k) ==
    LET row == CHOOSE r \in ListedFormats : r[1] = a.audio_type /\ r[2] = a.rate
        voice == SanitizeVoice(a.voice_name)
        tail == voice \o <<"-">> \o Fixed2(row[4]) \o <<"-">> \o Dec(row[5])
        idx == IF k >= 0 THEN <<"-">> \o Pad5(k) ELSE <<>>
        base == IF a.first # None /\ a.last # None
                THEN Pad5(a.first[1]) \o <<"-">> \o Pad5(a.last[1]) \o <<"-">> \o tail
                ELSE IF a.first # None
                THEN Pad5(a.first[1]) \o <<"-">> \o tail
                ELSE tail
        pre == IF a.prefix # <<>> THEN a.prefix \o <<"-">> ELSE <<>>
    IN  Str(slugify(pre \o base \o idx \o <<".">> \o row[6]))

Args == [audio_type |-> audio_type, rate |-> rate, voice_name |-> voice_name,
         prefix |-> prefix, first |-> start_sample_number,
         last |-> end_sample_number]

Listed(t, r) == \E row \in ListedFormats : row[1] = t /\ row[2] = r

\* the filesystems: any set of the names with no index or an index below
\* MaxExisting and, for the plain call, the one with every index up to 999
Filesystems(a) ==
    IF ~Listed(a.audio_type, a.rate) THEN {{}}
    ELSE {{DiskName(a, k) : k \in K} : K \in SUBSET (-1..(MaxExisting - 1))}
         \cup (IF a.voice_name = ADAM /\ a.prefix = None
                  /\ a.audio_type = "mp3"
               THEN {{DiskName(a, k) : k \in -1..(max_attempts - 1)}}
               ELSE {})

InitFile ==
    /\ pc = "process_text_to_audio"
    /\ script \in {"elevenify", "say2file"}
    /\ \E p \in FilePairs : audio_type = p[1] /\ rate = p[2]
    /\ output_format = None
    /\ voice_name \in Voices
    /\ prefix \in Prefixes
    /\ \E m \in SampleModes :
          /\ script = "say2file" => m[2] = None
          /\ start_sample_number = m[1] /\ end_sample_number = m[2]
    /\ fs \in Filesystems(Args)
    /\ index = 0 /\ checks = 0 /\ output_file = ""
    /\ IdleSplit /\ IdleEst /\ IdleSlug
    /\ IdleMain /\ IdlePta /\ IdleLog /\ fs0 = fs

\* process_text_to_audio: pause is not None and lines and len(lines) > 1
Paused == pause # None /\ pta_lines # None /\ Len(pta_lines) > 1

\* process_text_to_audio: get_output_format(audio_type, rate) returns, and
\* get_unique_filename is entered (voice_name sanitized, index 0)
PtaFormatOk ==
    /\ pc = "process_text_to_audio"
    /\ get_output_format(audio_type, rate).status = "ok"
    /\ output_format' = get_output_format(audio_type, rate).value
    /\ index' = 0 /\ checks' = 0
    /\ pc' = "get_unique_filename"
    /\ UNCHANGED <<vars_run, script, audio_type, rate, voice_name, prefix,
                   start_sample_number, end_sample_number, fs, output_file,
                   vars_split, vars_est, vars_slug>>

\* process_text_to_audio: get_output_format raises; the except clause prints
PtaFormatRaises ==
    /\ pc = "process_text_to_audio"
    /\ get_output_format(audio_type, rate).status # "ok"
    /\ pc' = "error_printed"
    /\ console' = Append(console, "Error generating audio")
    /\ UNCHANGED <<script, vars_fmt, vars_file, vars_split, vars_est, vars_slug,
                   vars_main, vars_pta, fs0, attempted, calls, written>>

\* an iteration that returns the indexed name without looking for it on disk
GufTryUnchecked ==
    /\ pc = "get_unique_filename"
    /\ script = "elevenify"
    /\ index < max_attempts
    /\ LET filename == Candidate(voice_name, output_format[2], output_format[3],
                                 output_format[4], prefix, start_sample_number,
                                 end_sample_number, index)
       IN  /\ checks' = checks + 1
           /\ IF index > 0 \/ ~os_path_exists(filename, fs)
              THEN output_file' = filename /\ pc' = "generate" /\ index' = index
              ELSE output_file' = output_file /\ pc' = pc /\ index' = index + 1
    /\ UNCHANGED <<vars_run, script, vars_fmt, voice_name, prefix, start_sample_number,
                   end_sample_number, fs, vars_split, vars_est, vars_slug>>

\* elevenify.py get_unique_filename: one iteration of for index in
\* range(max_attempts)
GufTry ==
    /\ pc = "get_unique_filename"
    /\ script = "elevenify"
    /\ index < max_attempts
    /\ LET filename == Candidate(voice_name, output_format[2], output_format[3],
                                 output_format[4], prefix, start_sample_number,
                                 end_sample_number, index)
       IN  /\ checks' = checks + 1
           /\ IF ~os_path_exists(filename, fs)
              THEN output_file' = filename /\ pc' = "generate" /\ index' = index
              ELSE output_file' = output_file /\ pc' = pc /\ index' = index + 1
    /\ UNCHANGED <<vars_run, script, vars_fmt, voice_name, prefix, start_sample_number,
                   end_sample_number, fs, vars_split, vars_est, vars_slug>>

\* elevenify.py get_unique_filename: the loop is exhausted and ValueError is
\* raised; the except clause of process_text_to_audio prints it
GufRaise ==
    /\ pc = "get_unique_filename"
    /\ script = "elevenify"
    /\ index >= max_attempts
    /\ pc' = "error_printed"
    /\ console' = Append(console, "Error generating audio")
    /\ UNCHANGED <<script, vars_fmt, vars_file, vars_split, vars_est, vars_slug,
                   vars_main, vars_pta, fs0, attempted, calls, written>>

\* say2file.py get_unique_filename: one iteration of while True
S2fGufTry ==
    /\ pc = "get_unique_filename"
    /\ script = "say2file"
    /\ LET first == S2fCandidate(voice_name, output_format[2], output_format[3],
                                 output_format[4], prefix, start_sample_number,
                                 index)
           second == S2fCandidateIndexed(voice_name, output_format[2],
                                 output_format[3], output_format[4], prefix,
                                 start_sample_number, index)
       IN  IF ~os_path_exists(first, fs)
           THEN /\ checks' = checks + 1
                /\ output_file' = first /\ pc' = "generate" /\ index' = index
           ELSE IF start_sample_number = None
           THEN /\ checks' = checks + 1
                /\ output_file' = output_file /\ pc' = pc /\ index' = index + 1
           ELSE IF ~os_path_exists(second, fs)
           THEN /\ checks' = checks + 2
                /\ output_file' = second /\ pc' = "generate" /\ index' = index
           ELSE /\ checks' = checks + 2
                /\ output_file' = output_file /\ pc' = pc /\ index' = index + 1
    /\ UNCHANGED <<vars_run, script, vars_fmt, voice_name, prefix, start_sample_number,
                   end_sample_number, fs, vars_split, vars_est, vars_slug>>

\* client.generate(...) raises; the except clause prints the error
GenerateRaises ==
    /\ pc = "generate"
    /\ ~Paused
    /\ calls' = Append(calls, pta_text)
    /\ pc' = "error_printed"
    /\ console' = Append(console, "Error generating audio")
    /\ UNCHANGED <<script, vars_fmt, vars_file, vars_split, vars_est, vars_slug,
                   vars_main, vars_pta, fs0, attempted, written>>

\* client.generate(...) returns the audio stream and open(output_file, "wb")
\* creates the file
OpenOutputFile ==
    /\ pc = "generate"
    /\ ~Paused
    /\ calls' = Append(calls, pta_text)
    /\ fs' = fs \cup {output_file}
    /\ written' = Append(written, <<Len(attempted), output_file>>)
    /\ pc' = "write"
    /\ UNCHANGED <<script, vars_fmt, voice_name, prefix, start_sample_number,
                   end_sample_number, index, checks, output_file,
                   vars_split, vars_est, vars_slug,
                   vars_main, vars_pta, fs0, attempted, console>>

\* every chunk of the stream is written and the file name is printed
WriteChunks ==
    /\ pc = "write"
    /\ pc' = "file_printed"
    /\ console' = Append(console, "Generated audio file")
    /\ UNCHANGED <<script, vars_fmt, vars_file, vars_split, vars_est, vars_slug,
                   vars_main, vars_pta, fs0, attempted, calls, written>>

\* a failed write is tried again under a new name
WriteRaisesRetry ==
    /\ pc = "write"
    /\ index' = 0
    /\ pc' = "get_unique_filename"
    /\ UNCHANGED <<script, vars_split, vars_est, vars_slug, vars_fmt,
                   voice_name, prefix, start_sample_number, end_sample_number,
                   fs, checks, output_file, vars_run>>

\* reading the stream raises while the file is open: the file stays, the
\* except clause prints the error
WriteRaises ==
    /\ pc = "write"
    /\ pc' = "error_printed"
    /\ console' = Append(console, "Error generating audio")
    /\ UNCHANGED <<script, vars_fmt, vars_file, vars_split, vars_est, vars_slug,
                   vars_main, vars_pta, fs0, attempted, calls, written>>

NextFile ==
    \/ PtaFormatOk \/ PtaFormatRaises
    \/ GufTry \/ GufRaise \/ S2fGufTry
    \/ GenerateRaises \/ OpenOutputFile \/ WriteChunks \/ WriteRaises

SpecFile == InitFile /\ [][NextFile]_vars

-----------------------------------------------------------------------------
(* The claims about get_unique_filename *)

\* get_unique_filename has just returned output_file
Returned == pc = "generate"

\* C3: whenever get_unique_filename returns a name, in any mode and with or
\* without a prefix, no file of that name exists at the moment of return.
C3_ReturnedNameIsFree ==
    Returned => (output_file # "" /\ output_file \notin fs)

\* a name returned after two candidates were found on disk, with a prefix
C3_Witness ==
    /\ Returned
    /\ index = 2 /\ prefix # None
    /\ Cardinality(fs) >= 2
    /\ output_file \notin fs

\* the least k >= from whose indexed name is not on disk
RECURSIVE FirstFreeIndex(_)
FirstFreeIndex(from) ==
    IF DiskName(Args, from) \notin fs \/ from >= max_attempts THEN from
    ELSE FirstFreeIndex(from + 1)

\* elevenify's range or single-sample mode, the name without index on disk
C4_Case ==
    /\ script = "elevenify"
    /\ start_sample_number # None
    /\ DiskName(Args, -1) \in fs

\* C4 as stated: the indices tried after the name without index are
\* 0, 1, 2, ..., and the first whose name does not exist is returned.
C4_IndexFromZero ==
    (Returned /\ C4_Case) =>
        output_file = DiskName(Args, FirstFreeIndex(0))

\* C4 amended: the indices tried are 1, 2, ..., 999; the name with 00000 is
\* never built, and with only the name without index on disk the returned
\* name carries 00001.
C4_IndexFromOne ==
    (Returned /\ C4_Case) =>
        /\ index >= 1
        /\ output_file = DiskName(Args, FirstFreeIndex(1))
        /\ index = FirstFreeIndex(1)
        /\ checks = index + 1
        /\ (voice_name = ADAM /\ prefix = None /\ audio_type = "mp3"
              /\ end_sample_number = None /\ index = 1)
           => output_file = "00012-adam-44.10-128-00001.mp3"

\* the name without index and the one with 00000 exist: 00001 is returned
C4_Witness ==
    /\ Returned
    /\ script = "elevenify"
    /\ voice_name = AL_B /\ prefix = <<"f">> /\ audio_type = "pcm"
    /\ end_sample_number = Some(2)
    /\ fs = {"f-00001-00002-al-b-22.05-22050.wav",
             "f-00001-00002-al-b-22.05-22050-00000.wav"}
    /\ output_file = "f-00001-00002-al-b-22.05-22050-00001.wav"

\* C5: get_unique_filename performs at most 1000 existence checks, and then
\* has returned a name or raised the error process_text_to_audio catches.
C5_AtMostThousandChecks ==
    /\ checks <= max_attempts
    /\ (pc = "get_unique_filename" /\ checks = max_attempts) => ENABLED GufRaise

\* C5 for elevenify.py alone, where it holds: the for loop makes at most
\* 1000 checks and its ValueError ends in the except clause
C5_ElevenifyBounded ==
    script = "elevenify" =>
        /\ checks <= max_attempts
        /\ (pc = "get_unique_filename" /\ checks = max_attempts) => ENABLED GufRaise

\* say2file.py returns a name only after more than 1000 checks
C5_S2fUnbounded ==
    /\ script = "say2file"
    /\ Returned
    /\ checks > max_attempts

-----------------------------------------------------------------------------
(* main: the command line, the checks before any conversion, and the three  *)
(* ways a file is converted (split, combined, paused) or a text is          *)

MaxRunLines == 3     \* most physical lines of the input file of a run

\* elevenify.py main: the for loop of the combined mode, from line i on
RECURSIVE CombinedLoop(_, _, _, _, _)
CombinedLoop(ls, i, st, start, last) ==
    IF i > Len(ls) THEN st
    ELSE LET line == StripComment(ls[i])
             n == st.sample_number + 1
         IN  IF line = <<>>
             THEN CombinedLoop(ls, i + 1, st, start, last)
             ELSE IF i < start \/ i > last
             THEN CombinedLoop(ls, i + 1, [st EXCEPT !.sample_number = n],
                               start, last)
             ELSE CombinedLoop(ls, i + 1,
                     [sample_number |-> n,
                      first_sample_number |->
                          IF st.first_sample_number = None THEN Some(n)
                          ELSE st.first_sample_number,
                      last_sample_number |-> Some(n),
                      non_comment_lines |-> Append(st.non_comment_lines, line)],
                     start, last)

\* a loop that tests the range before it counts the line
RECURSIVE CombinedLoopRangeFirst(_, _, _, _, _)
CombinedLoopRangeFirst(ls, i, st, start, last) ==
    IF i > Len(ls) THEN st
    ELSE LET line == StripComment(ls[i])
             n == st.sample_number + 1
         IN  IF i < start \/ i > last \/ line = <<>>
             THEN CombinedLoopRangeFirst(ls, i + 1, st, start, last)
             ELSE CombinedLoopRangeFirst(ls, i + 1,
                     [sample_number |-> n,
                      first_sample_number |->
                          IF st.first_sample_number = None THEN Some(n)
                          ELSE st.first_sample_number,
                      last_sample_number |-> Some(n),
                      non_comment_lines |-> Append(st.non_comment_lines, line)],
                     start, last)

\* the combined mode with sample numbers that count the in-range lines only
combined_lines_range_first(t, start, last) ==
    CombinedLoopRangeFirst(Split(Strip(t), NL), 1,
                 [sample_number |-> 0, first_sample_number |-> None,
                  last_sample_number |-> None, non_comment_lines |-> <<>>],
                 start, last)

\* elevenify.py main: non_comment_lines, first_sample_number and
\* last_sample_number of the combined mode
combined_lines(t, start, last) ==
    CombinedLoop(Split(Strip(t), NL), 1,
                 [sample_number |-> 0, first_sample_number |-> None,
                  last_sample_number |-> None, non_comment_lines |-> <<>>],
                 start, last)

\* say2file.py main: non_comment_lines of the combined mode
s2f_combined_lines(t, start) ==
    NonCommentInRange(Split(Strip(t), NL), 1, start, Len(Split(Strip(t), NL)))

\* get_file_prefix(filename), given the base name without its extension
get_file_prefix(base) ==
    LET slug == slugify(base)
    IN  SubSeq(slug, 1, IF Len(slug) < 10 THEN Len(slug) ELSE 10)

\* the checks of main without those of --start-line and --last-line
ParserErrorNoRange(a) ==
    \/ a.estimate_credits /\ a.file = None
    \/ /\ a.pause # None
       /\ \/ a.file = None
          \/ a.split
          \/ a.pause[1] < 0 \/ a.pause[1] > 30

\* the checks of main that end in parser.error before the API key is read
ParserError(a) ==
    \/ a.start_line < 1
    \/ a.start_line > 1 /\ a.file = None
    \/ /\ a.last_line # None
       /\ \/ a.file = None
          \/ a.last_line[1] < a.start_line
          \/ a.last_line[1] < 1
    \/ a.estimate_credits /\ a.file = None
    \/ /\ a.pause # None
       /\ \/ a.file = None
          \/ a.split
          \/ a.pause[1] < 0 \/ a.pause[1] > 30

\* line_count = len(text.strip().split('\n'))
line_count(t) == Len(Split(Strip(t), NL))

\* a silence is added after every clip, the last one too
RECURSIVE CombineLoopTrailing(_, _)
CombineLoopTrailing(combined, rest) ==
    IF rest = <<>> THEN combined \o <<"silence">>
    ELSE CombineLoopTrailing(combined \o <<"silence">> \o <<Head(rest)>>, Tail(rest))

\* combined_audio = audio_segments[0]; for segment in audio_segments[1:]:
\* combined_audio += silence + segment
RECURSIVE CombineLoop(_, _)
CombineLoop(combined, rest) ==
    IF rest = <<>> THEN combined
    ELSE CombineLoop(combined \o <<"silence">> \o <<Head(rest)>>, Tail(rest))

-----------------------------------------------------------------------------
(* Specification SpecRun: one run of main, from the parsed command line to  *)
(* the end of the process                                                   *)

\* the input file f.txt and the positional text of the runs
FileBase   == <<"f">>
DirectText == <<"h", "i">>

\* line k of an input file is either a content line that is its own letter
\* or a comment line
Letters == <<"a", "b", "c", "d", "e">>
RunTexts ==
    UNION {{Join(<<NL>>, [k \in 1..n |-> IF k \in S THEN <<Letters[k]>>
                                          ELSE <<"#", "x">>]) :
              S \in SUBSET (1..n)} : n \in 1..MaxRunLines}

\* every command line of the model; mp3 with rate 8000 is not in valid_formats
AllArgs ==
    [file : {None, FileBase}, text : {None, DirectText}, split : BOOLEAN,
     start_line : 0..MaxRunLines,
     last_line : {None} \cup {Some(n) : n \in 1..MaxRunLines},
     estimate_credits : BOOLEAN, pause : {None, Some(1), Some(31)},
     type : {"mp3"}, rate : {128, 8000}, list : BOOLEAN, credits : BOOLEAN]

\* say2file.py has no --last-line, --estimate-credits and --pause
S2fArgs ==
    {a \in AllArgs : a.last_line = None /\ ~a.estimate_credits /\ a.pause = None}

\* the command lines that ask for a conversion
ConvertArgs ==
    {a \in AllArgs : /\ ~a.estimate_credits /\ ~a.list /\ ~a.credits
                     /\ a.pause # Some(31)
                     /\ \/ a.file # None /\ a.text = None
                        \/ /\ a.file = None /\ a.text # None /\ ~a.split
                           /\ a.start_line = 1 /\ a.last_line = None
                           /\ a.pause = None}

\* the names on disk of the files of voice Adam, mp3 at 128, with the
\* disambiguation indices K
RunDisk(pre, first, last, K) ==
    {DiskName([audio_type |-> "mp3", rate |-> 128, voice_name |-> ADAM,
               prefix |-> pre, first |-> first, last |-> last], k) : k \in K}

\* a filesystem where the names of the conversions that start at sample
\* number 1 (and of a direct text) exist up to depth d1, those that start
\* later up to depth d2
PreExisting(d1, d2) ==
    LET K(d) == IF d = 0 THEN {} ELSE (-1)..(d - 1)
    IN  RunDisk(None, None, None, K(d1))
        \cup UNION {RunDisk(FileBase, Some(f), None,
                            K(IF f = 1 THEN d1 ELSE d2)) : f \in 1..MaxRunLines}
        \cup UNION {RunDisk(FileBase, Some(f), Some(l),
                            K(IF f = 1 THEN d1 ELSE d2)) :
                      f \in 1..MaxRunLines, l \in 1..MaxRunLines}

RunFilesystems ==
    {PreExisting(0, 0), PreExisting(1, 0), PreExisting(0, 1), PreExisting(2, 2)}

\* every name get_unique_filename can give the segment of sample number 1
Exhausted == RunDisk(FileBase, Some(1), None, (-1)..(max_attempts - 1))

\* a split run over two content lines
SplitArgs ==
    [file |-> FileBase, text |-> None, split |-> TRUE, start_line |-> 1,
     last_line |-> None, estimate_credits |-> FALSE, pause |-> None,
     type |-> "mp3", rate |-> 128, list |-> FALSE, credits |-> FALSE]

InitRun ==
    /\ pc = "main"
    /\ \/ \* any command line, one file, an empty directory
          /\ script = "elevenify"
          /\ args \in AllArgs
          /\ api_key \in BOOLEAN /\ voice_found \in BOOLEAN
          /\ text = Join(<<NL>>, << <<"a">>, <<"b">> >>)
          /\ fs = {}
       \/ \* any conversion of any file in any of the directories
          /\ script \in {"elevenify", "say2file"}
          /\ args \in ConvertArgs
          /\ script = "say2file" => args \in S2fArgs
          /\ api_key = TRUE /\ voice_found = TRUE
          /\ text \in RunTexts
          /\ fs \in RunFilesystems
       \/ \* a directory where no name is left for the first segment
          /\ script = "elevenify"
          /\ args = SplitArgs
          /\ api_key = TRUE /\ voice_found = TRUE
          /\ text = Join(<<NL>>, << <<"a">>, <<"b">> >>)
          /\ fs = Exhausted
    /\ fs0 = fs
    /\ start_line = 0 /\ last_line = 0 /\ segments = <<>>
    /\ IdleEst /\ IdleSlug /\ IdleFmt
    /\ voice_name = <<>> /\ prefix = None
    /\ start_sample_number = None /\ end_sample_number = None
    /\ index = 0 /\ checks = 0 /\ output_file = ""
    /\ seg_i = 0 /\ non_comment_lines = <<>>
    /\ first_sample_number = None /\ last_sample_number = None
    /\ IdlePta /\ IdleLog

\* main, lines 261-283: parse_args and the validation that ends in
\* parser.error (usage message on the console, exit status 2)
ParseArgs ==
    /\ pc = "main"
    /\ IF ParserError(args)
       THEN /\ console' = Append(console, "parser.error")
            /\ pc' = "exit_usage"
       ELSE /\ console' = console
            /\ pc' = "load_api_key"
    /\ UNCHANGED <<script, vars_split, vars_est, vars_slug, vars_fmt, vars_file,
                   vars_main, vars_pta, fs0, attempted, calls, written>>

\* load_api_key_and_url: ValueError, which nothing catches, when no key
LoadApiKey ==
    /\ pc = "load_api_key"
    /\ IF api_key
       THEN /\ console' = console
            /\ pc' = "client"
       ELSE /\ console' = Append(console, "ValueError: API key must be provided")
            /\ pc' = "exit_raised"
    /\ UNCHANGED <<script, vars_split, vars_est, vars_slug, vars_fmt, vars_file,
                   vars_main, vars_pta, fs0, attempted, calls, written>>

\* --credits: check_credits prints the credits and main returns
CheckCredits ==
    /\ pc = "client"
    /\ args.credits
    /\ console' = Append(console, "credits")
    /\ pc' = "exit"
    /\ UNCHANGED <<script, vars_split, vars_est, vars_slug, vars_fmt, vars_file,
                   vars_main, vars_pta, fs0, attempted, calls, written>>

\* --list: list_voices prints the voices and main returns
ListVoices ==
    /\ pc = "client"
    /\ ~args.credits /\ args.list
    /\ console' = Append(console, "voices")
    /\ pc' = "exit"
    /\ UNCHANGED <<script, vars_split, vars_est, vars_slug, vars_fmt, vars_file,
                   vars_main, vars_pta, fs0, attempted, calls, written>>

\* neither a text nor --file: parser.error
NoInput ==
    /\ pc = "client"
    /\ ~args.credits /\ ~args.list
    /\ args.text = None /\ args.file = None
    /\ console' = Append(console, "parser.error")
    /\ pc' = "exit_usage"
    /\ UNCHANGED <<script, vars_split, vars_est, vars_slug, vars_fmt, vars_file,
                   vars_main, vars_pta, fs0, attempted, calls, written>>

\* args.voice is looked up by name and by id, ValueError when it is neither;
\* then prefix = get_file_prefix(args.file) if args.file
ResolveVoice ==
    /\ pc = "client"
    /\ ~args.credits /\ ~args.list
    /\ args.text # None \/ args.file # None
    /\ IF voice_found
       THEN /\ voice_name' = ADAM
            /\ prefix' = IF args.file # None THEN get_file_prefix(args.file)
                         ELSE None
            /\ console' = console
            /\ pc' = "input"
       ELSE /\ UNCHANGED <<voice_name, prefix>>
            /\ console' = Append(console, "ValueError: Voice not found")
            /\ pc' = "exit_raised"
    /\ UNCHANGED <<script, vars_split, vars_est, vars_slug, vars_fmt,
                   start_sample_number, end_sample_number, fs, index, checks,
                   output_file, vars_main, vars_pta, fs0, attempted, calls,
                   written>>

\* the file is read and --start-line, --last-line are checked against its
\* line count; last_line defaults to the line count
ReadFile ==
    /\ pc = "input"
    /\ args.file # None
    /\ IF args.start_line > line_count(text)
       THEN /\ console' = Append(console, "Error: --start-line exceeds file line count")
            /\ pc' = "exit"
            /\ last_line' = last_line
       ELSE IF args.last_line # None /\ args.last_line[1] > line_count(text)
       THEN /\ console' = Append(console, "Error: --last-line exceeds file line count")
            /\ pc' = "exit"
            /\ last_line' = last_line
       ELSE /\ console' = console
            /\ pc' = "mode"
            /\ last_line' = IF args.last_line # None THEN args.last_line[1]
                            ELSE line_count(text)
    /\ UNCHANGED <<script, text, start_line, segments, vars_est, vars_slug,
                   vars_fmt, vars_file, vars_main, vars_pta, fs0, attempted,
                   calls, written>>

\* --estimate-credits: the estimate is printed (nothing when the subscription
\* query failed) and main returns
EstimateCredits ==
    /\ pc = "mode"
    /\ script = "elevenify"
    /\ args.estimate_credits
    /\ \/ /\ \E limit \in {0, 2} :
                estimate' = estimate_convertible_lines(limit, 0, text,
                                args.start_line, last_line,
                                "eleven_multilingual_v2")
          /\ console' = Append(console, "estimate")
       \/ /\ estimate' = None
          /\ console' = Append(console, "Error estimating credits")
    /\ pc' = "exit"
    /\ UNCHANGED <<script, vars_split, model, character_limit, character_count,
                   vars_slug, vars_fmt, vars_file, vars_main, vars_pta, fs0,
                   attempted, calls, written>>

\* --split: segments = split_text(...), and the for loop over them starts
MainSplit ==
    /\ pc = "mode"
    /\ ~args.estimate_credits /\ args.split
    /\ segments' = IF script = "elevenify"
                   THEN split_text(text, args.start_line, last_line)
                   ELSE s2f_split_text(text, args.start_line)
    /\ seg_i' = 1
    /\ pc' = "split_loop"
    /\ UNCHANGED <<script, text, start_line, last_line, vars_est, vars_slug,
                   vars_fmt, vars_file, args, api_key, voice_found,
                   non_comment_lines, first_sample_number, last_sample_number,
                   vars_pta, vars_log>>

\* the call process_text_to_audio(client, t, ..., args.type, args.rate, ...,
\* first, last, pause=p, lines=ls): the arguments are bound
CallPta(t, first, last, p, ls) ==
    /\ pta_text' = t
    /\ audio_type' = args.type /\ rate' = args.rate
    /\ start_sample_number' = first /\ end_sample_number' = last
    /\ pause' = p /\ pta_lines' = ls
    /\ audio_segments' = <<>> /\ combined_audio' = <<>>
    /\ attempted' = Append(attempted, <<first, last, t, ls>>)
    /\ pc' = "process_text_to_audio"

\* for sample_number, sentence in segments: process_text_to_audio(...,
\* prefix, start_sample_number=sample_number)
SplitNext ==
    /\ pc = "split_loop"
    /\ seg_i <= Len(segments)
    /\ CallPta(segments[seg_i][2], Some(segments[seg_i][1]), None, None, None)
    /\ seg_i' = seg_i + 1
    /\ UNCHANGED <<script, vars_split, vars_est, vars_slug, output_format,
                   voice_name, prefix, fs, index, checks, output_file,
                   args, api_key, voice_found, non_comment_lines,
                   first_sample_number, last_sample_number,
                   fs0, calls, written, console>>

\* the for loop over segments is over and main returns
SplitDone ==
    /\ pc = "split_loop"
    /\ seg_i > Len(segments)
    /\ pc' = "exit"
    /\ UNCHANGED <<script, vars_split, vars_est, vars_slug, vars_fmt, vars_file,
                   vars_run>>

\* elevenify.py, no --split: the in-range content lines are collected and
\* converted in one call, line by line with --pause and more than one line,
\* joined with spaces otherwise; nothing is converted when there is none
MainCombined ==
    /\ pc = "mode"
    /\ script = "elevenify"
    /\ ~args.estimate_credits /\ ~args.split
    /\ LET loop == combined_lines(text, args.start_line, last_line)
       IN  /\ non_comment_lines' = loop.non_comment_lines
           /\ first_sample_number' = loop.first_sample_number
           /\ last_sample_number' = loop.last_sample_number
           /\ IF loop.non_comment_lines = <<>>
              THEN /\ console' = Append(console, "No non-comment lines to process")
                   /\ pc' = "exit"
                   /\ UNCHANGED <<vars_pta, audio_type, rate,
                                  start_sample_number, end_sample_number,
                                  attempted>>
              ELSE /\ console' = console
                   /\ IF args.pause # None /\ Len(loop.non_comment_lines) > 1
                      THEN CallPta(None, loop.first_sample_number,
                                   loop.last_sample_number, args.pause,
                                   loop.non_comment_lines)
                      ELSE CallPta(Join(<<" ">>, loop.non_comment_lines),
                                   loop.first_sample_number,
                                   loop.last_sample_number, None, None)
    /\ UNCHANGED <<script, vars_split, vars_est, vars_slug, output_format,
                   voice_name, prefix, fs, index, checks, output_file,
                   args, api_key, voice_found, seg_i, fs0, calls, written>>

\* say2file.py, no --split: the content lines from start_line on are joined
\* with spaces and converted in one call that is given no sample number
S2fMainCombined ==
    /\ pc = "mode"
    /\ script = "say2file"
    /\ ~args.split
    /\ LET ls == s2f_combined_lines(text, args.start_line)
       IN  /\ non_comment_lines' = ls
           /\ IF ls = <<>>
              THEN /\ console' = Append(console, "No non-comment lines to process")
                   /\ pc' = "exit"
                   /\ UNCHANGED <<vars_pta, audio_type, rate,
                                  start_sample_number, end_sample_number,
                                  attempted>>
              ELSE /\ console' = console
                   /\ CallPta(Join(<<" ">>, ls), None, None, None, None)
    /\ UNCHANGED <<script, vars_split, vars_est, vars_slug, output_format,
                   voice_name, prefix, fs, index, checks, output_file,
                   args, api_key, voice_found, seg_i, first_sample_number,
                   last_sample_number, fs0, calls, written>>

\* no --file: process_text_to_audio(client, args.text, ..., args.rate)
MainDirect ==
    /\ pc = "input"
    /\ args.file = None
    /\ CallPta(args.text, None, None, None, None)
    /\ UNCHANGED <<script, vars_split, vars_est, vars_slug, output_format,
                   voice_name, prefix, fs, index, checks, output_file,
                   vars_main, fs0, calls, written, console>>

\* a failure of process_text_to_audio ends main instead of returning to the
\* for loop over segments
PtaReturnAbort ==
    /\ pc \in {"file_printed", "error_printed"}
    /\ pc' = IF args.file # None /\ args.split /\ pc = "file_printed"
             THEN "split_loop" ELSE "exit"
    /\ UNCHANGED <<script, vars_split, vars_est, vars_slug, vars_fmt, vars_file,
                   vars_run>>

\* process_text_to_audio returns to main: to the for loop over segments
\* with --split, to the end of main otherwise
PtaReturn ==
    /\ pc \in {"file_printed", "error_printed"}
    /\ pc' = IF args.file # None /\ args.split THEN "split_loop" ELSE "exit"
    /\ UNCHANGED <<script, vars_split, vars_est, vars_slug, vars_fmt, vars_file,
                   vars_run>>

\* paused path: client.generate(text=line, ...) for the next line, the
\* stream is joined and decoded, and the clip is appended
PauseGenerate ==
    /\ pc = "generate"
    /\ Paused
    /\ Len(audio_segments) < Len(pta_lines)
    /\ LET line == pta_lines[Len(audio_segments) + 1]
       IN  /\ calls' = Append(calls, line)
           /\ audio_segments' = Append(audio_segments, line)
    /\ pc' = pc
    /\ UNCHANGED <<script, vars_split, vars_est, vars_slug, vars_fmt, vars_file,
                   vars_main, pta_text, pause, pta_lines, combined_audio,
                   fs0, attempted, written, console>>

\* paused path: the call for the next line, or the decoding of its
\* stream, raises; the except clause prints the error
PauseGenerateRaises ==
    /\ pc = "generate"
    /\ Paused
    /\ Len(audio_segments) < Len(pta_lines)
    /\ calls' = Append(calls, pta_lines[Len(audio_segments) + 1])
    /\ console' = Append(console, "Error generating audio")
    /\ pc' = "error_printed"
    /\ UNCHANGED <<script, vars_split, vars_est, vars_slug, vars_fmt, vars_file,
                   vars_main, vars_pta, fs0, attempted, written>>

\* paused path: every line has its clip; the clips are concatenated with
\* the silence between them
PauseCombine ==
    /\ pc = "generate"
    /\ Paused
    /\ Len(audio_segments) = Len(pta_lines)
    /\ combined_audio' = CombineLoop(<<Head(audio_segments)>>,
                                     Tail(audio_segments))
    /\ pc' = "export"
    /\ UNCHANGED <<script, vars_split, vars_est, vars_slug, vars_fmt, vars_file,
                   vars_main, pta_text, pause, pta_lines, audio_segments,
                   vars_log>>

\* paused path: combined_audio.export(output_file, ...) writes the file and
\* its name is printed
Export ==
    /\ pc = "export"
    /\ fs' = fs \cup {output_file}
    /\ written' = Append(written, <<Len(attempted), output_file>>)
    /\ console' = Append(console, "Generated audio file")
    /\ pc' = "file_printed"
    /\ UNCHANGED <<script, vars_split, vars_est, vars_slug, vars_fmt,
                   voice_name, prefix, start_sample_number, end_sample_number,
                   index, checks, output_file, vars_main, vars_pta, fs0,
                   attempted, calls>>

\* paused path: export raises, before or after it opened the file; the
\* except clause prints the error
ExportRaises ==
    /\ pc = "export"
    /\ \/ UNCHANGED <<fs, written>>
       \/ /\ fs' = fs \cup {output_file}
          /\ written' = Append(written, <<Len(attempted), output_file>>)
    /\ console' = Append(console, "Error generating audio")
    /\ pc' = "error_printed"
    /\ UNCHANGED <<script, vars_split, vars_est, vars_slug, vars_fmt,
                   voice_name, prefix, start_sample_number, end_sample_number,
                   index, checks, output_file, vars_main, vars_pta, fs0,
                   attempted, calls>>

NextRun ==
    \/ ParseArgs \/ LoadApiKey \/ CheckCredits \/ ListVoices \/ NoInput
    \/ ResolveVoice \/ ReadFile \/ MainDirect \/ EstimateCredits
    \/ MainSplit \/ SplitNext \/ SplitDone \/ MainCombined \/ S2fMainCombined
    \/ PtaReturn
    \/ PtaFormatOk \/ PtaFormatRaises
    \/ GufTry \/ GufRaise \/ S2fGufTry
    \/ GenerateRaises \/ OpenOutputFile \/ WriteChunks \/ WriteRaises
    \/ PauseGenerate \/ PauseGenerateRaises \/ PauseCombine
    \/ Export \/ ExportRaises

SpecRun == InitRun /\ [][NextRun]_vars

-----------------------------------------------------------------------------
(* Split mode: every segment is attempted, whatever fails *)

\* the calls of process_text_to_audio a split run makes for the first n
\* segments, in the order of segments
SegmentCalls(n) ==
    [k \in 1..n |-> <<Some(segments[k][1]), None, segments[k][2], None>>]

\* the lines process_text_to_audio printed, one for each call that returned
Outcomes ==
    SelectSeq(console, LAMBDA m : m \in {"Error generating audio",
                                         "Generated audio file"})

\* the for loop over segments has started
SplitStarted == seg_i >= 1

\* the for loop is over and main has returned
SplitFinished == pc = "exit" /\ attempted = SegmentCalls(Len(segments))

\* once the for loop over segments has started: the calls made so far are
\* those of the first segments, each once, in ascending sample number order;
\* every call that returned printed its outcome; main ends by returning, and
\* only after the last segment
SplitLoopInvariant ==
    SplitStarted =>
        /\ seg_i <= Len(segments) + 1
        /\ attempted = SegmentCalls(seg_i - 1)
        /\ \A j, k \in 1..Len(attempted) :
              j < k => attempted[j][1][1] < attempted[k][1][1]
        /\ Len(Outcomes) =
              IF pc \in {"split_loop", "exit", "file_printed", "error_printed"}
              THEN seg_i - 1 ELSE seg_i - 2
        /\ pc \notin {"exit_usage", "exit_raised"}
        /\ pc = "exit" => seg_i = Len(segments) + 1

\* a natural number every step of a split run makes smaller: the segments
\* left, then the way left through process_text_to_audio (the for loop of
\* elevenify's get_unique_filename has at most max_attempts iterations;
\* say2file's while loop ends within as many on the directories of the
\* model, which hold fewer files)
SplitVariant ==
    LET way == CASE pc = "exit" -> 0
                 [] pc = "split_loop" -> 1
                 [] pc \in {"file_printed", "error_printed"} -> 2
                 [] pc = "write" -> 3
                 [] pc = "generate" -> 4
                 [] pc = "get_unique_filename" -> 5 + (max_attempts + 1 - index)
                 [] OTHER -> max_attempts + 7
    IN  (Len(segments) + 1 - seg_i) * (max_attempts + 8) + way

\* a step of the split loop or of the call it made is possible (for the two
\* loops of get_unique_filename: an iteration is left)
SplitCanStep ==
    \/ pc = "get_unique_filename" /\ script = "elevenify" /\ index < max_attempts
    \/ pc = "get_unique_filename" /\ script = "say2file"
    \/ ENABLED (SplitNext \/ SplitDone \/ PtaReturn \/ PtaFormatOk
                \/ PtaFormatRaises \/ GufRaise \/ GenerateRaises
                \/ OpenOutputFile \/ WriteChunks \/ WriteRaises)

\* C11: in split mode, whatever fails (the format lookup, the filename
\* builder, the synthesis call, the write), every segment split_text
\* returned is attempted exactly once, in ascending sample number order: a
\* failure is caught and printed, the next segments are still attempted, and
\* main returns normally after the last one.
C11_SplitAttemptsEverySegment ==
    /\ []SplitLoopInvariant
    /\ [](SplitStarted /\ pc # "exit" => SplitCanStep)
    /\ [][SplitStarted => SplitVariant' < SplitVariant]_vars

\* a split run over at least two segments has finished; the first segment
\* failed and a later one was written
C11_Witness ==
    /\ SplitFinished
    /\ Len(segments) >= 2
    /\ Outcomes[1] = "Error generating audio"
    /\ written # <<>>

-----------------------------------------------------------------------------
(* Output files of a request *)

\* the number of files the n-th call of process_text_to_audio opened for
\* writing
FilesOf(n) == Cardinality({i \in 1..Len(written) : written[i][1] = n})

\* the calls of process_text_to_audio that have returned
ReturnedCalls == 1..Len(Outcomes)

\* C12 as stated: when the run is over, every request (the combined or
\* paused text, each segment of a split run, the direct text) has written
\* exactly one file; stated for the runs whose (type, rate) pair is listed
C12_ExactlyOneFilePerRequest ==
    pc = "exit" /\ get_output_format(args.type, args.rate).status = "ok"
        => \A n \in 1..Len(attempted) : FilesOf(n) = 1

\* C12: every request writes at most one file, and exactly one when nothing
\* in it failed (its outcome is the printed file name); a request that
\* failed wrote one file if the failure came after the file was opened and
\* none otherwise.
C12_AtMostOneFilePerRequest ==
    /\ \A n \in 1..Len(attempted) : FilesOf(n) <= 1
    /\ \A i \in 1..Len(written) : written[i][1] \in 1..Len(attempted)
    /\ \A n \in ReturnedCalls :
          Outcomes[n] = "Generated audio file" => FilesOf(n) = 1

\* a run of two requests is over: the first one failed and wrote nothing,
\* the second one wrote its file
C12_Witness ==
    /\ pc = "exit"
    /\ Len(attempted) = 2
    /\ Outcomes = <<"Error generating audio", "Generated audio file">>
    /\ FilesOf(1) = 0 /\ FilesOf(2) = 1

-----------------------------------------------------------------------------
(* Configuration errors *)

\* the configuration errors of a run
MissingKey       == ~api_key
UnknownVoice     == ~voice_found
UnlistedPair     == get_output_format(args.type, args.rate).status # "ok"
BadStart         == args.start_line < 1
LastBeforeStart  == args.last_line # None /\ args.last_line[1] < args.start_line
RangeWithoutFile == args.file = None
                    /\ (args.start_line > 1 \/ args.last_line # None)
StartBeyondFile  == args.file # None /\ args.start_line > line_count(text)
LastBeyondFile   == /\ args.file # None /\ args.last_line # None
                    /\ args.last_line[1] > line_count(text)

ConfigurationError ==
    \/ MissingKey \/ UnknownVoice \/ UnlistedPair
    \/ BadStart \/ LastBeforeStart \/ RangeWithoutFile
    \/ StartBeyondFile \/ LastBeyondFile

\* the process is over
Terminated == pc \in {"exit", "exit_usage", "exit_raised"}

\* what the console shows when something was reported as wrong or as not
\* done
ErrorMessages ==
    {"parser.error", "ValueError: API key must be provided",
     "ValueError: Voice not found",
     "Error: --start-line exceeds file line count",
     "Error: --last-line exceeds file line count",
     "Error generating audio", "Error estimating credits",
     "No non-comment lines to process"}

ErrorReported == \E i \in 1..Len(console) : console[i] \in ErrorMessages

\* C13 as stated: a run with a configuration error ends with a reported
\* error, no synthesis call and no output file; stated for the runs that
\* are given a text or a file and neither --credits nor --list
C13_ConfigurationErrorReported ==
    /\ ConfigurationError /\ Terminated
    /\ ~args.credits /\ ~args.list
    /\ args.text # None \/ args.file # None
    => ErrorReported /\ calls = <<>> /\ written = <<>>

\* the run comes to the check of a setting that is wrong: the key and the
\* range checks of the parser in every run, the voice and the line count of
\* the file unless --credits or --list returns first, the (type, rate) pair
\* when process_text_to_audio is called
WrongSettingChecked ==
    \/ MissingKey \/ BadStart \/ LastBeforeStart \/ RangeWithoutFile
    \/ /\ UnknownVoice \/ StartBeyondFile \/ LastBeyondFile
       /\ ~args.credits /\ ~args.list
    \/ UnlistedPair /\ attempted # <<>>

\* C13: a run with a configuration error (no API key, unknown voice,
\* unlisted (type, rate) pair, start_line < 1, last_line < start_line, a
\* line number beyond the file, a range without --file) never makes a
\* synthesis call and never creates or changes a file, and when it is over
\* an error was reported if the run came to the check of the wrong setting.
C13_ConfigurationErrorStopsConversion ==
    ConfigurationError =>
        /\ calls = <<>> /\ written = <<>> /\ fs = fs0
        /\ Terminated /\ WrongSettingChecked => ErrorReported

\* a split run over two segments with an unlisted (type, rate) pair is
\* over: both calls printed the error, nothing was synthesized or written
C13_Witness ==
    /\ pc = "exit"
    /\ UnlistedPair /\ ~MissingKey /\ ~UnknownVoice
    /\ Len(attempted) = 2
    /\ console = <<"Error generating audio", "Error generating audio">>
    /\ calls = <<>> /\ fs = fs0

-----------------------------------------------------------------------------
(* The paused request *)

\* the in-range content lines of the file of the run, in line order
RunRangeContent ==
    LET nos == {i \in ContentLineNos(text) :
                   args.start_line <= i /\ i <= last_line}
    IN  [k \in 1..Cardinality(nos) |->
            StripComment(PhysicalLines(text)[KthSmallest(nos, k)])]

\* the clips of ls with one silence between each adjacent pair
WithSilences(ls) ==
    [i \in 1..(2 * Len(ls) - 1) |->
        IF i % 2 = 1 THEN ls[(i + 1) \div 2] ELSE "silence"]

\* C14: in a paused request over the n >= 2 in-range content lines, the
\* synthesis calls made so far are the first lines in line order, one each
\* and never more than n; a file is written only after all n calls
\* succeeded, once, from the n clips joined with n - 1 silences, one between
\* each adjacent pair; when one of the calls failed, the request is over
\* with no later call and no file.
C14_PausedRequest ==
    Paused =>
        /\ Len(pta_lines) >= 2
        /\ pta_lines = RunRangeContent
        /\ Len(calls) <= Len(pta_lines)
        /\ calls = SubSeq(pta_lines, 1, Len(calls))
        /\ Len(written) <= 1
        /\ written # <<>> =>
              /\ calls = pta_lines /\ audio_segments = pta_lines
              /\ combined_audio = WithSilences(pta_lines)
              /\ Cardinality({i \in 1..Len(combined_audio) :
                                 combined_audio[i] = "silence"})
                    = Len(pta_lines) - 1
        /\ pc = "file_printed" => Len(written) = 1
        /\ Len(calls) > Len(audio_segments) =>
              /\ pc \in {"error_printed", "exit"}
              /\ Len(calls) = Len(audio_segments) + 1
              /\ written = <<>> /\ fs = fs0

\* a paused request over three lines has written its file
C14_Witness ==
    /\ Paused /\ Len(pta_lines) = 3
    /\ pc = "file_printed"
    /\ Len(calls) = 3 /\ Len(written) = 1

\* a paused request is over after its second call failed
C14_SecondCallFailed ==
    /\ Paused /\ Len(pta_lines) = 3
    /\ pc = "exit"
    /\ Len(calls) = 2 /\ Len(audio_segments) = 1 /\ written = <<>>

-----------------------------------------------------------------------------
(* Specification SpecAgree: the estimator, split_text and the combined mode *)
(* of elevenify.py classify the lines of the same text and range            *)

InitAgree ==
    /\ pc = "estimate_credits"
    /\ script = "elevenify"
    /\ text \in Texts
    /\ start_line \in 1..MaxLine
    /\ last_line \in start_line..MaxLine
    /\ segments = <<>>
    /\ model = "eleven_multilingual_v2"
    /\ character_limit = MaxLimit /\ character_count = 0
    /\ estimate = None
    /\ IdleSlug /\ IdleFmt /\ IdleFile
    /\ IdleMain /\ IdlePta /\ IdleLog /\ fs0 = fs

\* main with --estimate-credits: result = estimate_convertible_lines(...)
AgreeEstimate ==
    /\ pc = "estimate_credits"
    /\ estimate' = estimate_convertible_lines(character_limit, character_count,
                                              text, start_line, last_line, model)
    /\ pc' = "split"
    /\ UNCHANGED <<script, vars_split, model, character_limit, character_count,
                   vars_slug, vars_fmt, vars_file, vars_run>>

\* main with --split: segments = split_text(text, args.start_line, last_line)
AgreeSplit ==
    /\ pc = "split"
    /\ segments' = split_text(text, start_line, last_line)
    /\ pc' = "combined"
    /\ UNCHANGED <<script, text, start_line, last_line, vars_est, vars_slug,
                   vars_fmt, vars_file, vars_run>>

\* main without --split: the loop that collects non_comment_lines
AgreeCombined ==
    /\ pc = "combined"
    /\ LET loop == combined_lines(text, start_line, last_line)
       IN  /\ non_comment_lines' = loop.non_comment_lines
           /\ first_sample_number' = loop.first_sample_number
           /\ last_sample_number' = loop.last_sample_number
    /\ pc' = "classified"
    /\ UNCHANGED <<script, vars_split, vars_est, vars_slug, vars_fmt, vars_file,
                   args, api_key, voice_found, seg_i, vars_pta, vars_log>>

NextAgree == AgreeEstimate \/ AgreeSplit \/ AgreeCombined

SpecAgree == InitAgree /\ [][NextAgree]_vars

\* the texts of the segments, in order
SegmentTexts == [k \in 1..Len(segments) |-> segments[k][2]]

\* C15: for every text and range with at least one in-range content line,
\* the estimator's range totals (full_file_lines, full_file_characters) are
\* the number of segments of split_text and the summed length of their
\* texts, and the combined mode collects the texts of these segments, with
\* first_sample_number and last_sample_number the sample numbers of the
\* first and the last segment, so that last - first + 1 is the number of
\* lines.
C15_ClassifiersAgree ==
    pc = "classified" /\ InRangeNos # {} =>
        /\ Len(segments) = Cardinality(InRangeNos)
        /\ estimate.full_file_lines = Len(segments)
        /\ estimate.full_file_characters = SumLen(SegmentTexts, Len(segments))
        /\ non_comment_lines = SegmentTexts
        /\ first_sample_number = Some(segments[1][1])
        /\ last_sample_number = Some(segments[Len(segments)][1])
        /\ last_sample_number[1] - first_sample_number[1] + 1
              = Len(non_comment_lines)

\* the three have classified a text whose range starts after a content
\* line and holds two content lines, with sample numbers 2 and 3
C15_Witness ==
    /\ pc = "classified"
    /\ start_line = 2 /\ last_line = 3
    /\ Len(segments) = 2 /\ segments[1][1] = 2
    /\ first_sample_number = Some(2) /\ last_sample_number = Some(3)
    /\ estimate.full_file_lines = 2

-----------------------------------------------------------------------------
(* No file is overwritten *)

\* the names of the files opened for writing, in order
WrittenNames == [i \in 1..Len(written) |-> written[i][2]]

\* C16: in one run, whatever the filesystem held at the start and whatever
\* fails, no file that existed before the run is opened for writing, no two
\* calls (the segments of a split run) write to the same name, and the
\* filesystem only grows by the files written.
C16_NoFileOverwritten ==
    /\ \A i \in 1..Len(written) : WrittenNames[i] \notin fs0
    /\ \A i, j \in 1..Len(written) : i # j => WrittenNames[i] # WrittenNames[j]
    /\ fs = fs0 \cup Range(WrittenNames)

\* a split run is over in a directory that already held the plain names and
\* the first indexed names of its segments: it wrote two new files after a
\* failure on a segment
C16_Witness ==
    /\ pc = "exit"
    /\ args.file # None /\ args.split
    /\ Len(written) = 2 /\ Len(attempted) = 3
    /\ fs # fs0
    /\ fs0 = PreExisting(2, 2)

=============================================================================
